---- MODULE Spec2Model ----
(***************************************************************************)
(* op-aws-credential-helper: the credential acquisition and caching        *)
(* pipeline of src/main.go (run, cachePath, readCache, writeCache,         *)
(* ttyOTPSource.OTP, opCLICredentialSource.Retrieve).                      *)
(*                                                                         *)
(* Every invocation of the binary is a run of one process of Procs.  The   *)
(* processes share nothing but the cache files, the clock and the shared   *)
(* AWS configuration.  Under Spec the invocations follow one another on    *)
(* process 1, as the pipeline is specified (no coordination of concurrent  *)
(* invocations); the second process is absent.                             *)
(* Time is counted in minutes.  A Go string is a sequence                  *)
(* of characters; the character "xFF" stands for a byte that is not valid  *)
(* UTF-8 and "uFFFD" for the Unicode replacement rune.  A *time.Time is    *)
(* <<>> (nil) or <<t>>.                                                    *)
(***************************************************************************)
EXTENDS Integers, Sequences, FiniteSets, TLC

\* ------------------------------------------------------------------ bounds
MaxNow == 2
MaxStringLen == 2
MaxRuns == 3
SessionLifetime == 7

\* --------------------------------------------------------- program constants
\* main.go:52  time.Now().Add(5*time.Minute)
Margin == 5

Procs == {1, 2}
Profiles == {"default", "dev"}

\* ------------------------------------------------------------------ values
Nil == <<>>

\* processcreds.CredentialProcessResponse{} : the zero value readCache returns
\* beside an error, and the value json.Unmarshal starts from.
ZeroResp ==
    [Version |-> 0, AccessKeyID |-> <<>>, SecretAccessKey |-> <<>>,
     SessionToken |-> <<>>, Expiration |-> Nil]

\* aws.Credentials{} : what Retrieve returns beside an error.
ZeroCreds == [AccessKeyID |-> <<>>, SecretAccessKey |-> <<>>]

\* The long-lived IAM pair kept in the secrets manager, and the code typed at
\* the terminal.
LongLivedKeyID == <<"A", "K", "I", "A">>
LongLivedSecret == <<"l", "l">>
MFACode == <<"1", "2", "3">>

\* ------------------------------------------------------- encoding/json model
\* A JSON text, as far as json.Unmarshal into the response struct tells texts
\* apart: zero bytes, bytes that are no JSON value (a cut-off document
\* included), the value null, or an object.  An object member that is absent
\* and one that is null decode alike, so both are <<"null">>.
JNull == <<"null">>

ZeroObj ==
    [Version |-> 0, AccessKeyId |-> <<>>, SecretAccessKey |-> <<>>,
     SessionToken |-> <<>>, Expiration |-> JNull]

EmptyText == [kind |-> "empty", obj |-> ZeroObj]
GarbageText == [kind |-> "garbage", obj |-> ZeroObj]
NullText == [kind |-> "null", obj |-> ZeroObj]
ObjectText(o) == [kind |-> "object", obj |-> o]

\* json.Marshal of a string: the string coerced to valid UTF-8, every invalid
\* byte replaced by U+FFFD.
ToValidUTF8(s) == [i \in 1..Len(s) |-> IF s[i] = "xFF" THEN "uFFFD" ELSE s[i]]

\* time.Time.MarshalJSON / UnmarshalJSON: the RFC 3339 text of the instant
\* (nanoseconds kept), null for a nil pointer.
FormatTime(t) == IF t = Nil THEN JNull ELSE <<"rfc3339", t[1]>>
ParseTime(j) == IF j = JNull THEN Nil ELSE <<j[2]>>

\* json.Marshal(resp), main.go:144 and the Encoder of main.go:53,103.  The
\* member of AccessKeyID is named AccessKeyId by the struct tag.
Marshal(resp) ==
    ObjectText([Version |-> resp.Version,
                AccessKeyId |-> ToValidUTF8(resp.AccessKeyID),
                SecretAccessKey |-> ToValidUTF8(resp.SecretAccessKey),
                SessionToken |-> ToValidUTF8(resp.SessionToken),
                Expiration |-> FormatTime(resp.Expiration)])

\* Mutant of Unmarshal: the SessionToken member is not decoded.
UnmarshalWithoutToken(text) ==
    CASE text.kind \in {"empty", "garbage"} -> [err |-> "json", resp |-> ZeroResp]
      [] text.kind = "null" -> [err |-> "", resp |-> ZeroResp]
      [] OTHER ->
           [err |-> "",
            resp |-> [Version |-> text.obj.Version,
                      AccessKeyID |-> text.obj.AccessKeyId,
                      SecretAccessKey |-> text.obj.SecretAccessKey,
                      SessionToken |-> <<>>,
                      Expiration |-> ParseTime(text.obj.Expiration)]]

\* json.Unmarshal(d, &resp), main.go:129-132: an error for anything that is no
\* JSON value; null leaves the zero struct; an object fills the members it
\* has.
Unmarshal(text) ==
    CASE text.kind \in {"empty", "garbage"} -> [err |-> "json", resp |-> ZeroResp]
      [] text.kind = "null" -> [err |-> "", resp |-> ZeroResp]
      [] OTHER ->
           [err |-> "",
            resp |-> [Version |-> text.obj.Version,
                      AccessKeyID |-> text.obj.AccessKeyId,
                      SecretAccessKey |-> text.obj.SecretAccessKey,
                      SessionToken |-> text.obj.SessionToken,
                      Expiration |-> ParseTime(text.obj.Expiration)]]

\* ------------------------------------------------------------- file system
\* A cache file is absent, present but not readable by the process, or holds
\* a text.
MissingFile == [kind |-> "missing", text |-> EmptyText]
UnreadableFile == [kind |-> "unreadable", text |-> EmptyText]
FileOf(text) == [kind |-> "file", text |-> text]

\* sha1.Sum([]byte(profile)) printed by %x, main.go:115-116.
Sha1Hex(prof) ==
    CASE prof = "default" -> "7505d64a54e061b7acd54ccd58b49dc43500b635"
      [] prof = "dev" -> "34c6fceca75e456f25e7e99531e2425c6c1de443"

\* Mutant of cachePath: one cache file for all profiles.
cachePathShared(prof, hasHome) ==
    IF ~hasHome
    THEN [err |-> "nohome", path |-> ""]
    ELSE [err |-> "", path |-> Sha1Hex("default")]

\* cachePath, main.go:106-118.  hasHome is FALSE when neither XDG_CACHE_HOME
\* nor a home directory is defined for the process.
cachePath(prof, hasHome) ==
    IF ~hasHome
    THEN [err |-> "nohome", path |-> ""]
    ELSE [err |-> "", path |-> Sha1Hex(prof)]

Paths == {Sha1Hex(p) : p \in Profiles}


\* Mutant of WrittenFile: the margin is taken off the expiration stored.
WrittenFileAdjusted(r) ==
    FileOf(Marshal([r EXCEPT !.Expiration = IF @ = Nil THEN Nil ELSE <<@[1] - Margin>>]))

\* The file os.WriteFile leaves when writeCache succeeds, main.go:144-148.
WrittenFile(r) == FileOf(Marshal(r))

\* readCache, main.go:120-134.
readCache(prof, hasHome, files) ==
    LET p == cachePath(prof, hasHome)
    IN  IF p.err # ""
        THEN [err |-> p.err, resp |-> ZeroResp]
        ELSE IF files[p.path].kind = "missing"
        THEN [err |-> "enoent", resp |-> ZeroResp]
        ELSE IF files[p.path].kind = "unreadable"
        THEN [err |-> "eacces", resp |-> ZeroResp]
        ELSE Unmarshal(files[p.path].text)

\* Mutants of Fresh: the margin taken twice, and a comparison that also
\* accepts a record expiring exactly at the margin.
FreshMarginTwice(t, resp) == t + 2 * Margin < resp.Expiration[1]

FreshInclusive(t, resp) == t + Margin <= resp.Expiration[1]

\* time.Now().Add(5*time.Minute).Before(*cached.Expiration), main.go:52, for
\* a record whose Expiration is not nil.
Fresh(t, resp) == t + Margin < resp.Expiration[1]

\* ------------------------------------------------------ secrets manager
\* The defaults of cli.OpAccessKeyIDField and cli.OpSecretAccessKeyField,
\* main.go:29-30.
AccessKeyIDField == "username"
SecretAccessKeyField == "credential"

DefaultFields == [id |-> AccessKeyIDField, secret |-> SecretAccessKeyField]

\* The two labels the invocation is configured with, accessKeyIDField and
\* secretAccessKeyField of main.go:180-186.
VARIABLE fields

Item(l, v) == [label |-> l, value |-> v]

\* The switch of main.go:214-219 on one record: the first case that matches
\* is taken.
Assign(item, creds) ==
    IF item.label = fields.id
    THEN [creds EXCEPT !.AccessKeyID = item.value]
    ELSE IF item.label = fields.secret
         THEN [creds EXCEPT !.SecretAccessKey = item.value]
         ELSE creds

\* Mutant of Extract: the first record of each configured label wins.
RECURSIVE ExtractFirstWins(_, _)
ExtractFirstWins(items, creds) ==
    IF items = <<>>
    THEN creds
    ELSE Assign(Head(items), ExtractFirstWins(Tail(items), creds))

\* The loop of Retrieve, main.go:213-221: the last record of each configured
\* label wins, every other label is skipped.
RECURSIVE Extract(_, _)
Extract(items, creds) ==
    IF items = <<>>
    THEN creds
    ELSE Extract(Tail(items), Assign(Head(items), creds))

\* What the op subprocess can do: fail to start, exit non-zero, or exit zero
\* with a standard output that is or is not a JSON list of records.
OpResults ==
    { [how |-> "start", items |-> <<>>],
      [how |-> "exit", items |-> <<>>],
      [how |-> "garbage", items |-> <<>>],
      [how |-> "json", items |-> <<Item(AccessKeyIDField, LongLivedKeyID),
                                   Item(SecretAccessKeyField, LongLivedSecret)>>],
      [how |-> "json", items |-> <<Item("notes", <<"n">>),
                                   Item(SecretAccessKeyField, LongLivedSecret),
                                   Item(AccessKeyIDField, LongLivedKeyID)>>],
      [how |-> "json", items |-> <<Item(AccessKeyIDField, LongLivedKeyID)>>] }

\* Mutant of RetrieveOf: what the loop has assigned is returned as it is.
RetrieveOfUnchecked(r) ==
    CASE r.how = "start" -> [err |-> "exec", creds |-> ZeroCreds]
      [] r.how = "exit" -> [err |-> "failed to get op item", creds |-> ZeroCreds]
      [] r.how = "garbage" -> [err |-> "op output is not json", creds |-> ZeroCreds]
      [] OTHER -> [err |-> "", creds |-> Extract(r.items, ZeroCreds)]

\* opCLICredentialSource.Retrieve, main.go:188-226, on the subprocess result r.
RetrieveOf(r) ==
    CASE r.how = "start" -> [err |-> "exec", creds |-> ZeroCreds]
      [] r.how = "exit" -> [err |-> "failed to get op item", creds |-> ZeroCreds]
      [] r.how = "garbage" -> [err |-> "op output is not json", creds |-> ZeroCreds]
      [] OTHER ->
           LET c == Extract(r.items, ZeroCreds)
           IN  IF c.AccessKeyID = <<>> \/ c.SecretAccessKey = <<>>
               THEN [err |-> "missing credentials in op output", creds |-> ZeroCreds]
               ELSE [err |-> "", creds |-> c]

\* ttyOTPSource.OTP, main.go:161-178: /dev/tty cannot be opened, the prompt
\* cannot be written or the line cannot be read, or a code is read.
OTPResults ==
    { [err |-> "notty", code |-> <<>>],
      [err |-> "read", code |-> <<>>],
      [err |-> "", code |-> MFACode] }

\* ------------------------------------------------------ token service
\* Session tokens are not all of one length.
SessionTokens == {<<"t", "1">>, <<"t", "2", "2">>}

\* sts.GetSessionTokenOutput.Credentials of a successful exchange at time t.
StsCredentials(t) ==
    { [AccessKeyId |-> <<"A", "S", "I", "A">>, SecretAccessKey |-> <<"s", "k">>,
       SessionToken |-> tok, Expiration |-> <<t + SessionLifetime>>] :
        tok \in SessionTokens }

\* Mutant of RespOf: the margin is taken off the expiration.
RespOfAdjusted(c) ==
    [Version |-> 1, AccessKeyID |-> c.AccessKeyId,
     SecretAccessKey |-> c.SecretAccessKey, SessionToken |-> c.SessionToken,
     Expiration |-> <<c.Expiration[1] - Margin>>]

\* Mutant of RespOf: the code of the MFA device is kept in the response.
RespOfLeaking(c) ==
    [Version |-> 1, AccessKeyID |-> c.AccessKeyId,
     SecretAccessKey |-> c.SecretAccessKey, SessionToken |-> MFACode,
     Expiration |-> c.Expiration]

\* The CredentialProcessResponse built from the exchange output,
\* main.go:92-98.
RespOf(c) ==
    [Version |-> 1, AccessKeyID |-> c.AccessKeyId,
     SecretAccessKey |-> c.SecretAccessKey, SessionToken |-> c.SessionToken,
     Expiration |-> c.Expiration]

\* What Retrieve and the exchange have got before they ran.
NoOutput == [how |-> "none", items |-> <<>>]

NoCredentials ==
    [AccessKeyId |-> <<>>, SecretAccessKey |-> <<>>, SessionToken |-> <<>>,
     Expiration |-> Nil]

\* ------------------------------------------------------ session duration
\* A time.Duration that is not negative: hours, seconds below an hour and
\* nanoseconds below a second.  The default is the 12h of main.go:26.
DefaultDuration == [hours |-> 12, seconds |-> 0, nanos |-> 0]

SecondsPerHour == 3600
Int32Max == 2147483647

\* Whether the whole seconds of d are at most Int32Max.
FitsInt32(d) ==
    \/ d.hours < Int32Max \div SecondsPerHour
    \/ /\ d.hours = Int32Max \div SecondsPerHour
       /\ d.seconds <= Int32Max % SecondsPerHour

\* int32(cli.Duration.Seconds()), main.go:84: the float64 number of seconds
\* cut to its integer part.  When that does not fit an int32 the Go
\* specification leaves the result to the implementation: the smallest int32
\* on amd64, the largest on arm64.
ToInt32Seconds(d) ==
    IF FitsInt32(d)
    THEN {d.hours * SecondsPerHour + d.seconds}
    ELSE {-Int32Max - 1, Int32Max}

\* ------------------------------------------------------- file modes
\* The cache base directory and the directory of the cache files in it,
\* filepath.Dir(path) of main.go:141.
Dirs == {"base", "app"}

\* os.MkdirAll(filepath.Dir(path), 0700), main.go:141: every missing directory
\* is created with mode 0700, the others are left as they are.
MkdirAll(pm) ==
    [pm EXCEPT !.dir = [d \in Dirs |-> IF pm.dir[d] = "none" THEN "0700" ELSE pm.dir[d]],
               !.made = pm.made \cup {d \in Dirs : pm.dir[d] = "none"}]

\* The open of os.WriteFile(path, d, 0600), main.go:148: the mode is given to
\* a file the call creates; a file that exists keeps its mode.
OpenFile(pm, path) ==
    [pm EXCEPT !.file[path] = IF @ = "none" THEN "0600" ELSE @]

\* The modes of a cache directory every file of which this program wrote.
PermOf(files) ==
    [file |-> [f \in Paths |->
                  CASE files[f].kind = "missing" -> "none"
                    [] files[f].kind = "unreadable" -> "0000"
                    [] OTHER -> "0600"],
     dir |-> [d \in Dirs |->
                 IF \A f \in Paths : files[f].kind = "missing" THEN "none" ELSE "0700"],
     made |-> {}]

\* The length of a text, up to what all cache documents have in common.
TextLen(text) ==
    IF text.kind = "object"
    THEN Len(text.obj.AccessKeyId) + Len(text.obj.SecretAccessKey)
         + Len(text.obj.SessionToken)
    ELSE 0

\* The files a write of the data of new at offset 0 can leave in a file that
\* holds old, main.go:148: a file that is not longer than the data becomes
\* the data; of a longer one the rest stays behind the data, which is no JSON
\* value.  How long a cut-off document is is not known.
WriteOver(old, new) ==
    CASE old.text.kind \in {"empty", "null"} -> {new}
      [] old.text.kind = "garbage" -> {new, FileOf(GarbageText)}
      [] OTHER -> IF TextLen(old.text) <= TextLen(new.text)
                  THEN {new}
                  ELSE {FileOf(GarbageText)}

\* The file of a profile as a run finds it.
FileAt(prof, hasHome, files) ==
    IF hasHome THEN files[Sha1Hex(prof)] ELSE MissingFile

\* ------------------------------------------------------------------ state
VARIABLES
    now,         \* the clock, in minutes
    runs,        \* invocations started so far
    cache,       \* the cache directory: path -> file
    configured,  \* the profiles the shared AWS configuration resolves
    pc,          \* where each process is in run()
    profile,     \* cli.Profile of the process
    home,        \* whether the environment names a cache base directory
    cached,      \* cached, err of main.go:51
    checkedAt,   \* time.Now() of main.go:52
    creds,       \* creds of main.go:68
    otp,         \* otp of main.go:74
    resp,        \* resp of main.go:92
    calls,       \* the operations the run has invoked, in order
    stdout,      \* the documents the process has written to standard output
    exit,        \* the exit status, -1 while the process runs
    err,         \* the error the run ended with
    stored,      \* history: per path, the response the last completed
                 \* writeCache stored, while no later write touched the file
    before,      \* history: the profile's cache file when the run started
    perm,        \* the modes of the cache files and of the directories above
                 \* them, and the directories writeCache has created
    opOut,       \* what the op subprocess of main.go:196 answered
    out,         \* out.Credentials of main.go:83
    duration,    \* cli.Duration
    durationSeconds  \* DurationSeconds of the request of main.go:84

vars ==
    <<now, runs, cache, configured, pc, profile, home, cached, checkedAt, creds,
      otp, resp, calls, stdout, exit, err, stored, before, perm, opOut, out,
      duration, durationSeconds, fields>>

NotStored == [valid |-> FALSE, resp |-> ZeroResp]

NoRead == [err |-> "unread", resp |-> ZeroResp]

\* Expirations of the records the cache directory may hold when the first
\* invocation starts: one already past during the run, one that leaves the
\* margin while the clock advances.
InitExpirations == {1, Margin + 1}

InitFiles ==
    {MissingFile, UnreadableFile, FileOf(GarbageText), FileOf(NullText),
     FileOf(ObjectText([ZeroObj EXCEPT !.Version = 1]))}
    \cup { FileOf(Marshal([Version |-> 1, AccessKeyID |-> <<"A", "S", "I", "A">>,
                           SecretAccessKey |-> <<"s", "k">>,
                           SessionToken |-> <<"t", "0">>, Expiration |-> <<e>>])) :
             e \in InitExpirations }

Init ==
    /\ now = 0
    /\ runs = 0
    /\ cache \in [Paths -> InitFiles]
    /\ configured \in {Profiles, {"default"}}
    /\ home \in BOOLEAN
    /\ pc = [p \in Procs |-> IF p = 1 THEN "idle" ELSE "absent"]
    /\ profile = [p \in Procs |-> "default"]
    /\ cached = [p \in Procs |-> NoRead]
    /\ checkedAt = [p \in Procs |-> 0]
    /\ creds = [p \in Procs |-> ZeroCreds]
    /\ otp = [p \in Procs |-> <<>>]
    /\ resp = [p \in Procs |-> ZeroResp]
    /\ calls = [p \in Procs |-> <<>>]
    /\ stdout = [p \in Procs |-> <<>>]
    /\ exit = [p \in Procs |-> -1]
    /\ err = [p \in Procs |-> ""]
    /\ stored = [f \in Paths |-> NotStored]
    /\ before = [p \in Procs |-> MissingFile]
    /\ perm = PermOf(cache)
    /\ opOut = [p \in Procs |-> NoOutput]
    /\ out = [p \in Procs |-> NoCredentials]
    /\ duration = DefaultDuration
    /\ durationSeconds = [p \in Procs |-> 0]
    /\ fields = DefaultFields

\* ---------------------------------------------------------------- actions
\* Mutant of ExitStatus: main drops the error run returned.
ExitStatusIgnoringError(e) == IF e = "panic" THEN 2 ELSE 0

\* The exit status of the process, main.go:42-45: 0 when run returned nil, 1
\* when it returned an error, and the Go runtime's 2 when it panicked.
ExitStatus(e) ==
    CASE e = "" -> 0
      [] e = "panic" -> 2
      [] OTHER -> 1

\* The process ends: run returned e, or the runtime panicked.
Ends(p, e) ==
    /\ pc' = [pc EXCEPT ![p] = "done"]
    /\ exit' = [exit EXCEPT ![p] = ExitStatus(e)]
    /\ err' = [err EXCEPT ![p] = e]

Continues(p, next) ==
    /\ pc' = [pc EXCEPT ![p] = next]
    /\ UNCHANGED <<exit, err>>

Called(p, what) == calls' = [calls EXCEPT ![p] = Append(@, what)]

\* A new invocation: kong.Parse, main.go:36-40.
Start(p) ==
    /\ pc[p] \in {"idle", "done"}
    /\ runs < MaxRuns
    /\ runs' = runs + 1
    /\ pc' = [pc EXCEPT ![p] = "cacheCheck"]
    /\ cached' = [cached EXCEPT ![p] = NoRead]
    /\ checkedAt' = [checkedAt EXCEPT ![p] = 0]
    /\ creds' = [creds EXCEPT ![p] = ZeroCreds]
    /\ otp' = [otp EXCEPT ![p] = <<>>]
    /\ resp' = [resp EXCEPT ![p] = ZeroResp]
    /\ calls' = [calls EXCEPT ![p] = <<>>]
    /\ stdout' = [stdout EXCEPT ![p] = <<>>]
    /\ exit' = [exit EXCEPT ![p] = -1]
    /\ err' = [err EXCEPT ![p] = ""]
    /\ opOut' = [opOut EXCEPT ![p] = NoOutput]
    /\ out' = [out EXCEPT ![p] = NoCredentials]
    /\ durationSeconds' = [durationSeconds EXCEPT ![p] = 0]
    /\ \E prof \in Profiles :
          /\ profile' = [profile EXCEPT ![p] = prof]
          /\ before' = [before EXCEPT ![p] = FileAt(prof, home, cache)]
    /\ UNCHANGED <<now, cache, configured, home, stored,
                   perm, duration, fields>>

\* main.go:51-54.  A record that decoded without an expiration makes
\* *cached.Expiration a nil dereference: the runtime panics.
CacheCheck(p) ==
    /\ pc[p] = "cacheCheck"
    /\ LET r == readCache(profile[p], home, cache)
       IN  /\ cached' = [cached EXCEPT ![p] = r]
           /\ checkedAt' = [checkedAt EXCEPT ![p] = now]
           /\ IF r.err = "" /\ r.resp.Expiration = Nil
              THEN /\ Called(p, "readCache")
                   /\ Ends(p, "panic")
                   /\ UNCHANGED stdout
              ELSE IF r.err = "" /\ Fresh(now, r.resp)
              THEN /\ calls' = [calls EXCEPT ![p] = @ \o <<"readCache", "Encode">>]
                   /\ stdout' = [stdout EXCEPT ![p] = Append(@, Marshal(r.resp))]
                   /\ Ends(p, "")
              ELSE /\ Called(p, "readCache")
                   /\ Continues(p, "loadConfig")
                   /\ UNCHANGED stdout
    /\ UNCHANGED <<now, runs, cache, configured, profile, home, creds, otp, resp,
                   stored,
                   before, perm, opOut, out, duration, durationSeconds, fields>>

\* Mutant of LoadConfig: the error of LoadSharedConfigProfile is not checked.
LoadConfigUnchecked(p) ==
    /\ pc[p] = "loadConfig"
    /\ Called(p, "LoadSharedConfigProfile")
    /\ Continues(p, "retrieve")
    /\ UNCHANGED <<now, runs, cache, configured, profile, home, cached, checkedAt,
                   creds, otp, resp, stdout, stored,
                   before, perm, opOut, out, duration, durationSeconds, fields>>

\* config.LoadSharedConfigProfile, main.go:56-59.
LoadConfig(p) ==
    /\ pc[p] = "loadConfig"
    /\ Called(p, "LoadSharedConfigProfile")
    /\ IF profile[p] \in configured
       THEN Continues(p, "retrieve")
       ELSE Ends(p, "config")
    /\ UNCHANGED <<now, runs, cache, configured, profile, home, cached, checkedAt,
                   creds, otp, resp, stdout, stored,
                   before, perm, opOut, out, duration, durationSeconds, fields>>

\* Mutant of Retrieve: the error of Retrieve is not checked.
RetrieveUnchecked(p) ==
    /\ pc[p] = "retrieve"
    /\ Called(p, "Retrieve")
    /\ \E r \in OpResults :
          /\ opOut' = [opOut EXCEPT ![p] = r]
          /\ creds' = [creds EXCEPT ![p] = RetrieveOf(r).creds]
    /\ Continues(p, "otp")
    /\ UNCHANGED <<now, runs, cache, configured, profile, home, cached, checkedAt,
                   otp, resp, stdout, stored,
                   before, perm, out, duration, durationSeconds, fields>>

\* credSource.Retrieve, main.go:61-71, the subprocess answering with one of
\* results.
RetrieveFrom(p, results) ==
    /\ pc[p] = "retrieve"
    /\ Called(p, "Retrieve")
    /\ \E r \in results :
          LET got == RetrieveOf(r)
          IN  /\ opOut' = [opOut EXCEPT ![p] = r]
              /\ creds' = [creds EXCEPT ![p] = got.creds]
              /\ IF got.err = ""
                 THEN Continues(p, "otp")
                 ELSE Ends(p, got.err)
    /\ UNCHANGED <<now, runs, cache, configured, profile, home, cached, checkedAt,
                   otp, resp, stdout, stored,
                   before, perm, out, duration, durationSeconds, fields>>

Retrieve(p) == RetrieveFrom(p, OpResults)

\* otpSource.OTP, main.go:73-77.
OTP(p) ==
    /\ pc[p] = "otp"
    /\ Called(p, "OTP")
    /\ \E r \in OTPResults :
          /\ otp' = [otp EXCEPT ![p] = r.code]
          /\ IF r.err = ""
             THEN Continues(p, "exchange")
             ELSE Ends(p, r.err)
    /\ UNCHANGED <<now, runs, cache, configured, profile, home, cached, checkedAt,
                   creds, resp, stdout, stored,
                   before, perm, opOut, out, duration, durationSeconds, fields>>

\* Mutant of GetSessionToken: a rejected exchange prompts for a new code.
GetSessionTokenRetrying(p) ==
    /\ pc[p] = "exchange"
    /\ Called(p, "GetSessionToken")
    /\ \E n \in ToInt32Seconds(duration) :
          durationSeconds' = [durationSeconds EXCEPT ![p] = n]
    /\ \/ /\ Continues(p, "otp")
          /\ UNCHANGED <<resp, out>>
       \/ \E c \in StsCredentials(now) :
             /\ out' = [out EXCEPT ![p] = c]
             /\ resp' = [resp EXCEPT ![p] = RespOf(c)]
             /\ Continues(p, "writeCache")
    /\ UNCHANGED <<now, runs, cache, configured, profile, home, cached, checkedAt,
                   creds, otp, stdout, stored,
                   before, perm, opOut, duration, fields>>

\* stsClient.GetSessionToken and the response built from it, main.go:79-98.
\* The request carries int32(cli.Duration.Seconds()), main.go:84.
GetSessionToken(p) ==
    /\ pc[p] = "exchange"
    /\ Called(p, "GetSessionToken")
    /\ \E n \in ToInt32Seconds(duration) :
          durationSeconds' = [durationSeconds EXCEPT ![p] = n]
    /\ \/ /\ Ends(p, "sts")
          /\ UNCHANGED <<resp, out>>
       \/ \E c \in StsCredentials(now) :
             /\ out' = [out EXCEPT ![p] = c]
             /\ resp' = [resp EXCEPT ![p] = RespOf(c)]
             /\ Continues(p, "writeCache")
    /\ UNCHANGED <<now, runs, cache, configured, profile, home, cached, checkedAt,
                   creds, otp, stdout, stored,
                   before, perm, opOut, duration, fields>>

Tick ==
    /\ now < MaxNow
    /\ now' = now + 1
    /\ UNCHANGED <<runs, cache, configured, pc, profile, home, cached, checkedAt,
                   creds, otp, resp, calls, stdout, exit, err, stored,
                   before, perm, opOut, out, duration, durationSeconds, fields>>

\* writeCache up to the opening of the file, main.go:99 and 136-148: cachePath,
\* os.MkdirAll, json.Marshal (which cannot fail on a response of the exchange)
\* and the open of os.WriteFile, which creates the file or truncates it.  A
\* path the process cannot read cannot be opened for writing either.  MkdirAll
\* either fails before it creates anything or creates every missing directory.
WriteCacheOpen(p) ==
    /\ pc[p] = "writeCache"
    /\ Called(p, "writeCache")
    /\ LET cp == cachePath(profile[p], home)
       IN  IF cp.err # ""
           THEN Ends(p, cp.err) /\ UNCHANGED <<cache, stored, perm>>
           ELSE \/ Ends(p, "mkdir") /\ UNCHANGED <<cache, stored, perm>>
                \/ /\ Ends(p, "open")
                   /\ perm' = MkdirAll(perm)
                   /\ UNCHANGED <<cache, stored>>
                \/ /\ cache[cp.path].kind # "unreadable"
                   /\ cache' = [cache EXCEPT ![cp.path] = FileOf(EmptyText)]
                   /\ perm' = OpenFile(MkdirAll(perm), cp.path)
                   /\ stored' = [stored EXCEPT ![cp.path] = NotStored]
                   /\ Continues(p, "writeFile")
    /\ UNCHANGED <<now, runs, configured, profile, home, cached, checkedAt, creds,
                   otp, resp, stdout,
                   before, opOut, out, duration, durationSeconds, fields>>

\* The write and close of os.WriteFile, main.go:148, and the return of
\* main.go:99-101.  The data goes to the start of the file as it is by then.
\* A write that fails leaves the file as the open left it, or a part of the
\* data in it.
WriteCacheWrite(p) ==
    /\ pc[p] = "writeFile"
    /\ LET path == cachePath(profile[p], home).path
       IN  \/ /\ \E f \in WriteOver(cache[path], WrittenFile(resp[p])) :
                    /\ cache' = [cache EXCEPT ![path] = f]
                    /\ stored' = [stored EXCEPT ![path] =
                                     IF f = WrittenFile(resp[p])
                                     THEN [valid |-> TRUE, resp |-> resp[p]]
                                     ELSE NotStored]
              /\ Continues(p, "emit")
           \/ /\ \E f \in {cache[path], FileOf(GarbageText)} :
                    cache' = [cache EXCEPT ![path] = f]
              /\ stored' = [stored EXCEPT ![path] = NotStored]
              /\ Ends(p, "write")
    /\ UNCHANGED <<now, runs, configured, profile, home, cached, checkedAt, creds,
                   otp, resp, calls, stdout,
                   before, perm, opOut, out, duration, durationSeconds, fields>>

\* json.NewEncoder(os.Stdout).Encode(resp), main.go:103.
Emit(p) ==
    /\ pc[p] = "emit"
    /\ Called(p, "Encode")
    /\ stdout' = [stdout EXCEPT ![p] = Append(@, Marshal(resp[p]))]
    /\ Ends(p, "")
    /\ UNCHANGED <<now, runs, cache, configured, profile, home, cached, checkedAt,
                   creds, otp, resp, stored,
                   before, perm, opOut, out, duration, durationSeconds, fields>>

\* ------------------------------------------- writeCache then readCache
\* The two cache functions applied to arbitrary responses: strings of up to
\* MaxStringLen characters, valid UTF-8 or not, with and without expiration.
Chars == {"a", "xFF"}

Strings == UNION {[1..n -> Chars] : n \in 0..MaxStringLen}

Responses ==
    [Version : {0, 1}, AccessKeyID : Strings, SecretAccessKey : Strings,
     SessionToken : Strings, Expiration : {Nil, <<0>>, <<SessionLifetime>>}]

InitRoundTrip ==
    /\ now = 0
    /\ runs = 0
    /\ cache = [f \in Paths |-> MissingFile]
    /\ configured = Profiles
    /\ home = TRUE
    /\ pc = [p \in Procs |-> IF p = 1 THEN "write" ELSE "absent"]
    /\ \E prof \in Profiles : profile = [p \in Procs |-> prof]
    /\ cached = [p \in Procs |-> NoRead]
    /\ checkedAt = [p \in Procs |-> 0]
    /\ creds = [p \in Procs |-> ZeroCreds]
    /\ otp = [p \in Procs |-> <<>>]
    /\ \E r \in Responses : resp = [p \in Procs |-> r]
    /\ calls = [p \in Procs |-> <<>>]
    /\ stdout = [p \in Procs |-> <<>>]
    /\ exit = [p \in Procs |-> -1]
    /\ err = [p \in Procs |-> ""]
    /\ stored = [f \in Paths |-> NotStored]
    /\ before = [p \in Procs |-> MissingFile]
    /\ perm = PermOf(cache)
    /\ opOut = [p \in Procs |-> NoOutput]
    /\ out = [p \in Procs |-> NoCredentials]
    /\ duration = DefaultDuration
    /\ durationSeconds = [p \in Procs |-> 0]
    /\ fields = DefaultFields

\* writeCache(profile, resp) returning nil, main.go:136-149.
WriteCache(p) ==
    /\ pc[p] = "write"
    /\ cache' = [cache EXCEPT ![cachePath(profile[p], home).path] = WrittenFile(resp[p])]
    /\ perm' = OpenFile(MkdirAll(perm), cachePath(profile[p], home).path)
    /\ pc' = [pc EXCEPT ![p] = "read"]
    /\ UNCHANGED <<now, runs, configured, profile, home, cached, checkedAt, creds,
                   otp, resp, calls, stdout, exit, err, stored,
                   before, opOut, out, duration, durationSeconds, fields>>

\* readCache(profile), main.go:120-134.
ReadCache(p) ==
    /\ pc[p] = "read"
    /\ cached' = [cached EXCEPT ![p] = readCache(profile[p], home, cache)]
    /\ pc' = [pc EXCEPT ![p] = "reread"]
    /\ UNCHANGED <<now, runs, cache, configured, profile, home, checkedAt, creds,
                   otp, resp, calls, stdout, exit, err, stored,
                   before, perm, opOut, out, duration, durationSeconds, fields>>

NextRoundTrip == \E p \in Procs : WriteCache(p) \/ ReadCache(p)

SpecRoundTrip == InitRoundTrip /\ [][NextRoundTrip]_vars

Step(p) ==
    \/ Start(p)
    \/ CacheCheck(p)
    \/ LoadConfig(p)
    \/ Retrieve(p)
    \/ OTP(p)
    \/ GetSessionToken(p)
    \/ WriteCacheOpen(p)
    \/ WriteCacheWrite(p)
    \/ Emit(p)

Next == (\E p \in Procs : Step(p)) \/ Tick

Spec == Init /\ [][Next]_vars

\* ------------------------------------------------------------ properties
\* The run of p has made its cache check.
Checked(p) == calls[p] # <<>>

\* The cache check of p loaded a record that carries an expiration.
Loaded(p) == Checked(p) /\ cached[p].err = "" /\ cached[p].resp.Expiration # Nil

Has(p, what) == \E i \in 1..Len(calls[p]) : calls[p][i] = what

Count(p, what) == Cardinality({i \in 1..Len(calls[p]) : calls[p][i] = what})

HitCalls == <<"readCache", "Encode">>

RefreshCalls ==
    <<"readCache", "LoadSharedConfigProfile", "Retrieve", "OTP", "GetSessionToken",
      "writeCache", "Encode">>

RetrieveErrors ==
    {"exec", "failed to get op item", "op output is not json",
     "missing credentials in op output"}

OTPErrors == {"notty", "read"}

WriteErrors == {"nohome", "mkdir", "open", "write"}

\* C1: a run whose cache record loaded and expires more than Margin after the
\* time of the check has ended successfully, has written exactly the loaded
\* record to stdout, and has invoked nothing but the cache read and the
\* encoder: no Retrieve, no OTP, no GetSessionToken.
C1_FreshCacheReused ==
    \A p \in Procs :
        (Loaded(p) /\ checkedAt[p] + Margin < cached[p].resp.Expiration[1])
        => /\ pc[p] = "done"
           /\ exit[p] = 0
           /\ stdout[p] = <<Marshal(cached[p].resp)>>
           /\ calls[p] = HitCalls

C1_Witness ==
    \E p \in Procs :
        /\ Loaded(p)
        /\ cached[p].resp.Expiration[1] = checkedAt[p] + Margin + 1
        /\ stdout[p] # <<>>
        /\ exit[p] = 0

WriteFailed(p) == pc[p] = "done" /\ err[p] \in WriteErrors

\* C3 (as claimed): when the exchange succeeded and the cache write failed, the
\* run still writes the obtained response to stdout and ends with status 0.
C3_WriteFailureNotFatal ==
    \A p \in Procs :
        WriteFailed(p) => exit[p] = 0 /\ stdout[p] = <<Marshal(resp[p])>>

\* C4: a run that ended with a configuration, retrieval, prompt or exchange
\* error has a non-zero status and an empty stdout; stdout never holds more
\* than one document, and holds one only once the run has ended successfully,
\* the encoder being the last thing it invoked.
C4_NoOutputOnFailure ==
    \A p \in Procs :
        /\ (pc[p] = "done" /\ err[p] \in {"config", "sts"} \cup RetrieveErrors \cup OTPErrors)
           => exit[p] > 0 /\ stdout[p] = <<>>
        /\ Len(stdout[p]) <= 1
        /\ stdout[p] # <<>> =>
              /\ pc[p] = "done"
              /\ exit[p] = 0
              /\ calls[p][Len(calls[p])] = "Encode"
              /\ Count(p, "Encode") = 1

C4_Witness ==
    /\ \E p \in Procs : pc[p] = "done" /\ err[p] = "sts" /\ exit[p] = 1
    /\ runs > 1

\* C5 (as claimed): whatever the cache file is, when the check did not load a
\* complete record the run is not ended by the check: it is at the
\* configuration step, the first of the refresh path.
C5_CacheReadNeverFatal ==
    \A p \in Procs :
        (calls[p] = <<"readCache">> /\ ~Loaded(p)) => pc[p] = "loadConfig"

\* C6 (as claimed): a run for a profile the shared configuration does not
\* resolve fails, whatever the cache holds, and invokes neither Retrieve, OTP
\* nor GetSessionToken.
C6_UnresolvedProfileFails ==
    \A p \in Procs :
        (pc[p] = "done" /\ profile[p] \notin configured)
        => /\ exit[p] > 0
           /\ ~Has(p, "Retrieve") /\ ~Has(p, "OTP") /\ ~Has(p, "GetSessionToken")

\* C6 (amended): a run that attempts the resolution for a profile the shared
\* configuration does not resolve ends there with status 1, an empty stdout and
\* no Retrieve, OTP or GetSessionToken; the resolution is attempted only after
\* a cache check that found no fresh record, so a run for such a profile that
\* did not fail is one that reused a fresh cached record, and no run for such a
\* profile touches the secret.
C6_FailedResolutionFailsFast ==
    \A p \in Procs :
        profile[p] \notin configured
        => /\ Has(p, "LoadSharedConfigProfile")
              => /\ pc[p] = "done"
                 /\ exit[p] = 1
                 /\ err[p] = "config"
                 /\ stdout[p] = <<>>
                 /\ calls[p] = <<"readCache", "LoadSharedConfigProfile">>
                 /\ ~(Loaded(p) /\ checkedAt[p] + Margin < cached[p].resp.Expiration[1])
           /\ (pc[p] = "done" /\ exit[p] = 0) => calls[p] = HitCalls
           /\ ~Has(p, "Retrieve") /\ ~Has(p, "OTP") /\ ~Has(p, "GetSessionToken")

C6_Witness ==
    \E p \in Procs :
        /\ profile[p] \notin configured
        /\ err[p] = "config"
        /\ Loaded(p)

IsPrefix(a, b) == Len(a) <= Len(b) /\ \A i \in 1..Len(a) : a[i] = b[i]

\* C7: the operations of a run are always an initial part of readCache,
\* LoadSharedConfigProfile, Retrieve, OTP, GetSessionToken, writeCache, Encode
\* (or the cache hit's readCache, Encode), and each was invoked only after the
\* one before it succeeded: OTP with the secret retrieved, GetSessionToken with
\* a code read, writeCache with the exchanged response, Encode with that
\* response in the cache file.  A run whose retrieval failed ended at once with
\* status 1, having invoked no OTP, GetSessionToken or writeCache and written
\* nothing.
C7_RefreshOrder ==
    \A p \in Procs :
        /\ IsPrefix(calls[p], RefreshCalls) \/ calls[p] = HitCalls
        /\ Has(p, "Retrieve") => ~(Loaded(p) /\ checkedAt[p] + Margin < cached[p].resp.Expiration[1])
        /\ Has(p, "Retrieve") => profile[p] \in configured
        /\ Has(p, "OTP") =>
              creds[p] = [AccessKeyID |-> LongLivedKeyID, SecretAccessKey |-> LongLivedSecret]
        /\ Has(p, "GetSessionToken") => otp[p] = MFACode
        /\ Has(p, "writeCache") =>
              \E t \in 0..now : \E c \in StsCredentials(t) : resp[p] = RespOf(c)
        /\ calls[p] = RefreshCalls =>
              /\ home
              /\ cache[Sha1Hex(profile[p])] = FileOf(Marshal(resp[p]))
        /\ (pc[p] = "done" /\ err[p] \in RetrieveErrors) =>
              /\ calls[p] = <<"readCache", "LoadSharedConfigProfile", "Retrieve">>
              /\ exit[p] = 1
              /\ stdout[p] = <<>>

C7_Witness ==
    \E p \in Procs :
        /\ calls[p] = RefreshCalls
        /\ exit[p] = 0
        /\ stdout[p] = <<Marshal(resp[p])>>

\* C8: a run invokes OTP at most once and GetSessionToken at most once, and
\* exactly once each when it has got past them; a run whose exchange failed
\* ended with status 1 right after that single exchange: one prompt, no cache
\* write, nothing on stdout.
C8_SinglePromptSingleExchange ==
    \A p \in Procs :
        /\ Count(p, "OTP") <= 1
        /\ Count(p, "GetSessionToken") <= 1
        /\ pc[p] \in {"exchange", "writeCache", "writeFile", "emit"} => Count(p, "OTP") = 1
        /\ pc[p] \in {"writeCache", "writeFile", "emit"} => Count(p, "GetSessionToken") = 1
        /\ (pc[p] = "done" /\ err[p] = "sts") =>
              /\ exit[p] = 1
              /\ Count(p, "OTP") = 1
              /\ Count(p, "GetSessionToken") = 1
              /\ calls[p][Len(calls[p])] = "GetSessionToken"
              /\ ~Has(p, "writeCache")
              /\ stdout[p] = <<>>

C8_Witness ==
    \E p \in Procs :
        /\ pc[p] = "done"
        /\ err[p] = "sts"
        /\ Count(p, "OTP") = 1

ValidUTF8(str) == \A i \in 1..Len(str) : str[i] # "xFF"

C11_CacheUnchangedOrComplete ==
    \A p \in Procs :
        pc[p] = "done" /\ home
        => LET f == cache[Sha1Hex(profile[p])]
           IN  \/ f = before[p]
               \/ Has(p, "writeCache") /\ f = WrittenFile(resp[p])

\* ------------------------------------------------------------------- C12
\* No run has started yet.
Unstarted ==
    /\ now = 0
    /\ cached = [p \in Procs |-> NoRead]
    /\ checkedAt = [p \in Procs |-> 0]
    /\ creds = [p \in Procs |-> ZeroCreds]
    /\ otp = [p \in Procs |-> <<>>]
    /\ resp = [p \in Procs |-> ZeroResp]
    /\ calls = [p \in Procs |-> <<>>]
    /\ stdout = [p \in Procs |-> <<>>]
    /\ exit = [p \in Procs |-> -1]
    /\ err = [p \in Procs |-> ""]
    /\ stored = [f \in Paths |-> NotStored]
    /\ before = [p \in Procs |-> MissingFile]
    /\ opOut = [p \in Procs |-> NoOutput]
    /\ out = [p \in Procs |-> NoCredentials]
    /\ durationSeconds = [p \in Procs |-> 0]

\* A record that was written by a run long ago, or by another program.
StaleFile ==
    FileOf(Marshal([Version |-> 1, AccessKeyID |-> <<"A", "S", "I", "A">>,
                    SecretAccessKey |-> <<"s", "k">>,
                    SessionToken |-> <<"t", "0">>, Expiration |-> <<1>>]))

\* The modes writeCache may find: each record file absent, owner-only or
\* readable by everyone; each directory absent, owner-only or open to
\* everyone; nothing exists in a directory that does not.
InitModes ==
    { pm \in [file : [Paths -> {"none", "0600", "0644"}],
              dir : [Dirs -> {"none", "0700", "0755"}],
              made : {{}}] :
        /\ pm.dir["base"] = "none" => pm.dir["app"] = "none"
        /\ pm.dir["app"] = "none" => \A f \in Paths : pm.file[f] = "none" }

InitPerm ==
    /\ Unstarted
    /\ runs = 0
    /\ perm \in InitModes
    /\ cache = [f \in Paths |-> IF perm.file[f] = "none" THEN MissingFile ELSE StaleFile]
    /\ configured = Profiles
    /\ home = TRUE
    /\ pc = [p \in Procs |-> IF p = 1 THEN "idle" ELSE "absent"]
    /\ profile = [p \in Procs |-> "default"]
    /\ duration = DefaultDuration
    /\ fields = DefaultFields

\* The runs of Spec in a cache directory with any modes.
SpecPerm == InitPerm /\ [][Next]_vars

\* C12 (as claimed): when writeCache has returned nil, whatever it found, the
\* record file is readable and writable by its owner only, and every
\* directory writeCache created is accessible by its owner only.
C12_OwnerOnlyAfterWrite ==
    \A p \in Procs :
        pc[p] = "emit"
        => /\ perm.file[Sha1Hex(profile[p])] = "0600"
           /\ \A d \in perm.made : perm.dir[d] = "0700"

\* ------------------------------------------------------------ C13, C14
\* Retrieve on every output of the subprocess: lists of up to MaxItems
\* records over the two default labels and a third one, with values that are
\* empty or not, in every order and with repeated labels.
MaxItems == 3

Labels == {AccessKeyIDField, SecretAccessKeyField, "notes"}

Values == {<<>>, <<"a">>, <<"b">>}

AllItems == UNION {[1..n -> [label : Labels, value : Values]] : n \in 0..MaxItems}

AllOpResults ==
    { [how |-> h, items |-> <<>>] : h \in {"start", "exit", "garbage"} }
    \cup { [how |-> "json", items |-> its] : its \in AllItems }

\* The configurations of the two labels: the defaults, the two exchanged, and
\* one label given for both.
AllFields ==
    { DefaultFields,
      [id |-> SecretAccessKeyField, secret |-> AccessKeyIDField],
      [id |-> AccessKeyIDField, secret |-> AccessKeyIDField] }

RetrieveAny(p) == RetrieveFrom(p, AllOpResults)

InitRetrieve ==
    /\ Unstarted
    /\ runs = 1
    /\ cache = [f \in Paths |-> MissingFile]
    /\ perm = PermOf(cache)
    /\ configured = Profiles
    /\ home = TRUE
    /\ pc = [p \in Procs |-> IF p = 1 THEN "retrieve" ELSE "absent"]
    /\ profile = [p \in Procs |-> "default"]
    /\ duration = DefaultDuration
    /\ fields \in AllFields

NextRetrieve == \E p \in Procs : RetrieveAny(p)

SpecRetrieve == InitRetrieve /\ [][NextRetrieve]_vars

\* The records of items that carry label, in their order.
Records(items, label) == SelectSeq(items, LAMBDA it : it.label = label)

HasRecord(items, label) == Records(items, label) # <<>>

LastValue(items, label) == Records(items, label)[Len(Records(items, label))].value

\* The records of items with one of the two configured labels.
Consulted(items) ==
    SelectSeq(items, LAMBDA it : it.label \in {fields.id, fields.secret})

\* What Retrieve returned to the run of p.
Returned(p) == [err |-> err[p], creds |-> creds[p]]

MissingField == "missing credentials in op output"

\* C13 (as claimed): whenever the output is a list with a record for each of
\* the two configured labels, Retrieve succeeds, the access key ID is the
\* value of a record of the access-key label, the secret access key the value
\* of a record of the secret-key label, and the records of other labels have
\* no influence.
C13_BothLabelsSucceed ==
    \A p \in Procs :
        LET its == opOut[p].items
        IN  /\ opOut[p].how = "json"
            /\ HasRecord(its, fields.id)
            /\ HasRecord(its, fields.secret)
            => /\ err[p] = ""
               /\ \E i \in 1..Len(its) :
                     its[i].label = fields.id /\ its[i].value = creds[p].AccessKeyID
               /\ \E i \in 1..Len(its) :
                     its[i].label = fields.secret /\ its[i].value = creds[p].SecretAccessKey
               /\ Returned(p) = RetrieveOf([how |-> "json", items |-> Consulted(its)])

\* C13 (amended): whenever the output is a list in which the last record of
\* each of two different configured labels has a value that is not empty,
\* Retrieve succeeds with the access key ID of the last access-key record and
\* the secret access key of the last secret-key record.  When the last record
\* of a configured label has an empty value, or one label is configured for
\* both fields, Retrieve fails with the missing-credential error.  In every
\* case the result is the one for the records of the two labels alone.
C13_LastNonEmptyRecords ==
    \A p \in Procs :
        LET its == opOut[p].items
        IN  opOut[p].how = "json"
            => /\ ( /\ fields.id # fields.secret
                    /\ HasRecord(its, fields.id)
                    /\ HasRecord(its, fields.secret)
                    /\ LastValue(its, fields.id) # <<>>
                    /\ LastValue(its, fields.secret) # <<>> )
                  => /\ pc[p] = "otp"
                     /\ Returned(p) =
                           [err |-> "",
                            creds |-> [AccessKeyID |-> LastValue(its, fields.id),
                                       SecretAccessKey |-> LastValue(its, fields.secret)]]
               /\ ( \/ fields.id = fields.secret
                    \/ HasRecord(its, fields.id) /\ LastValue(its, fields.id) = <<>>
                    \/ HasRecord(its, fields.secret) /\ LastValue(its, fields.secret) = <<>> )
                  => Returned(p) = [err |-> MissingField, creds |-> ZeroCreds]
               /\ Returned(p) = RetrieveOf([how |-> "json", items |-> Consulted(its)])

C13_Witness ==
    \E p \in Procs :
        /\ pc[p] = "otp"
        /\ fields = DefaultFields
        /\ opOut[p].items = <<Item(AccessKeyIDField, <<"b">>), Item("notes", <<"b">>),
                              Item(SecretAccessKeyField, <<"b">>)>>
        /\ creds[p] = [AccessKeyID |-> <<"b">>, SecretAccessKey |-> <<"b">>]

\* C14: whenever the output is a list that has no record of the access-key
\* label or none of the secret-key label, Retrieve fails with the
\* missing-credential error and the run ends with status 1; a subprocess that
\* exits non-zero and an output that is no JSON give two other errors, and the
\* missing-credential error is given to a well-formed output only.
C14_MissingFieldDistinct ==
    \A p \in Procs :
        LET its == opOut[p].items
        IN  /\ ( /\ opOut[p].how = "json"
                 /\ ~HasRecord(its, fields.id) \/ ~HasRecord(its, fields.secret) )
               => /\ Returned(p) = [err |-> MissingField, creds |-> ZeroCreds]
                  /\ pc[p] = "done"
                  /\ exit[p] = 1
            /\ opOut[p].how = "exit" => err[p] = "failed to get op item"
            /\ opOut[p].how = "garbage" => err[p] = "op output is not json"
            /\ err[p] = MissingField => opOut[p].how = "json"

C14_Witness ==
    \E p \in Procs :
        /\ pc[p] = "done"
        /\ err[p] = MissingField
        /\ fields = DefaultFields
        /\ opOut[p] = [how |-> "json",
                       items |-> <<Item("notes", <<"a">>),
                                   Item(AccessKeyIDField, <<"a">>)>>]

\* ------------------------------------------------------------------- C15
\* The run of p went through the whole refresh and ended with status 0.
Refreshed(p) == pc[p] = "done" /\ calls[p] = RefreshCalls /\ exit[p] = 0

\* C15: after a successful refresh run, stdout holds one document, the cache
\* file of the profile holds that same document, and the expiration in it is
\* the text of the expiration the token service returned, the margin neither
\* taken off nor added.
C15_EmittedEqualsStoredVerbatim ==
    \A p \in Procs :
        Refreshed(p)
        => /\ Len(stdout[p]) = 1
           /\ cache[Sha1Hex(profile[p])] = FileOf(stdout[p][1])
           /\ stdout[p][1] = Marshal(resp[p])
           /\ resp[p].Expiration = out[p].Expiration
           /\ stdout[p][1].obj.Expiration = <<"rfc3339", out[p].Expiration[1]>>
           /\ stdout[p][1].obj.AccessKeyId = out[p].AccessKeyId
           /\ stdout[p][1].obj.SecretAccessKey = out[p].SecretAccessKey
           /\ stdout[p][1].obj.SessionToken = out[p].SessionToken

C15_Witness ==
    \E p \in Procs :
        /\ Refreshed(p)
        /\ now > 0
        /\ out[p].Expiration[1] > SessionLifetime
        /\ cache[Sha1Hex(profile[p])].text.obj.Expiration = <<"rfc3339", out[p].Expiration[1]>>
        /\ stdout[p][1].obj.Expiration = <<"rfc3339", out[p].Expiration[1]>>

\* ------------------------------------------------------------------- C16
\* The values that must stay in memory: the long-lived pair and the code.
Transient == {LongLivedKeyID, LongLivedSecret, MFACode}

\* The strings of a JSON text.
StringsOf(text) ==
    IF text.kind = "object"
    THEN {text.obj.AccessKeyId, text.obj.SecretAccessKey, text.obj.SessionToken}
    ELSE {}

\* The documents writeCache can store of what the exchange returns.
SessionFiles ==
    { FileOf(Marshal([Version |-> 1, AccessKeyID |-> c.AccessKeyId,
                      SecretAccessKey |-> c.SecretAccessKey,
                      SessionToken |-> c.SessionToken,
                      Expiration |-> c.Expiration])) :
        c \in UNION {StsCredentials(t) : t \in 0..MaxNow} }

\* C16: in every state, no cache file and no document on stdout holds the
\* long-lived access key ID, the long-lived secret access key or the MFA code;
\* a cache file is as the first run found it, empty or cut off by a failed
\* write, or the document of session credentials the exchange returned.
C16_NoTransientPersisted ==
    /\ \A f \in Paths :
          /\ cache[f].kind = "file" => StringsOf(cache[f].text) \cap Transient = {}
          /\ cache[f] \in InitFiles \cup {FileOf(EmptyText), FileOf(GarbageText)}
                          \cup SessionFiles
    /\ \A p \in Procs :
          \A i \in 1..Len(stdout[p]) : StringsOf(stdout[p][i]) \cap Transient = {}

C16_Witness ==
    \E p \in Procs :
        /\ Refreshed(p)
        /\ creds[p] = [AccessKeyID |-> LongLivedKeyID, SecretAccessKey |-> LongLivedSecret]
        /\ otp[p] = MFACode
        /\ cache[Sha1Hex(profile[p])] \in SessionFiles
        /\ StringsOf(stdout[p][1]) # {}

\* ------------------------------------------------------------------- C17
\* The cache directory with every file but the one of prof taken away.
OnlyFileOf(prof, files) ==
    [f \in Paths |-> IF f = Sha1Hex(prof) THEN files[f] ELSE MissingFile]

\* C17: where there is a cache directory, the cache file of a run is a
\* function of its profile, different for different profiles; a step changes a cache file only if it is the write of
\* a run for the profile of that file; what a run reads of the cache depends
\* on the file of its profile alone; and no step of a run that has made only
\* the calls of the cache-hit path changes any cache file.
C17_OnlyOwnRecord ==
    [][ /\ \A a, b \in Profiles :
              a # b /\ home => cachePath(a, home).path # cachePath(b, home).path
        /\ \A f \in Paths :
              cache'[f] # cache[f]
              => \E p \in Procs :
                    /\ pc[p] \in {"writeCache", "writeFile"}
                    /\ pc'[p] # pc[p]
                    /\ f = Sha1Hex(profile[p])
        /\ \A p \in Procs :
              pc[p] = "cacheCheck" /\ pc'[p] # pc[p]
              => cached'[p] = readCache(profile[p], home, OnlyFileOf(profile[p], cache))
        /\ \A p \in Procs :
              pc'[p] # pc[p] /\ IsPrefix(calls'[p], HitCalls) => cache' = cache
      ]_vars

C17_Witness ==
    \E p \in Procs :
        /\ Refreshed(p)
        /\ profile[p] = "dev"
        /\ cache[Sha1Hex("dev")] = WrittenFile(resp[p])
        /\ before[p] # cache[Sha1Hex("dev")]
        /\ cache[Sha1Hex("default")] = StaleFile

\* ------------------------------------------------------------------- C18
\* Two invocations at the same time, each run once, in a cache directory that
\* holds nothing or a stale record of each profile.
InitConc ==
    /\ Unstarted
    /\ runs = MaxRuns - 2
    /\ \E f \in {MissingFile, StaleFile} : cache = [g \in Paths |-> f]
    /\ perm = PermOf(cache)
    /\ configured = Profiles
    /\ home = TRUE
    /\ pc = [p \in Procs |-> "idle"]
    /\ profile = [p \in Procs |-> "default"]
    /\ duration = DefaultDuration
    /\ fields = DefaultFields

NextConc == \E p \in Procs : Step(p)

SpecConc == InitConc /\ [][NextConc]_vars

\* The records a reader can take for complete: those the directory held at
\* first and those of the session credentials of an exchange.
CompleteRecords ==
    { Unmarshal(f.text).resp : f \in {StaleFile} \cup SessionFiles }

\* C18 (as claimed): when two runs for one profile have both written the cache
\* and ended, the cache file is the complete document of one of the two, and
\* a run that read the cache while the other was writing has either loaded a
\* complete record or taken the cache for missed.
C18_LastWriterWins ==
    /\ \A p, q \in Procs :
          /\ p # q
          /\ profile[p] = profile[q]
          /\ Refreshed(p)
          /\ Refreshed(q)
          => cache[Sha1Hex(profile[p])] \in {WrittenFile(resp[p]), WrittenFile(resp[q])}
    /\ \A p \in Procs :
          Checked(p) /\ cached[p].err = "" => cached[p].resp \in CompleteRecords

\* ------------------------------------------------------------------- C19
\* The exchange with any session duration: whole hours up to a hundred
\* years, whole seconds and half seconds beside them, on both sides of the
\* largest int32 number of seconds (596523h14m7s).
Durations ==
    [hours : {0, 1, 12, 36, Int32Max \div SecondsPerHour,
              (Int32Max \div SecondsPerHour) + 1, 876000},
     seconds : {0, 1, Int32Max % SecondsPerHour, (Int32Max % SecondsPerHour) + 1, 900},
     nanos : {0, 500000000}]

InitDuration ==
    /\ Unstarted
    /\ runs = 1
    /\ cache = [f \in Paths |-> MissingFile]
    /\ perm = PermOf(cache)
    /\ configured = Profiles
    /\ home = TRUE
    /\ pc = [p \in Procs |-> IF p = 1 THEN "exchange" ELSE "absent"]
    /\ profile = [p \in Procs |-> "default"]
    /\ duration \in Durations
    /\ fields = DefaultFields

NextDuration == \E p \in Procs : GetSessionToken(p)

SpecDuration == InitDuration /\ [][NextDuration]_vars

\* C19 (as claimed): the DurationSeconds of the request of an exchange is the
\* session duration in seconds, whatever the duration: as many whole hours
\* and seconds, and no part of a second left out.
C19_DurationSecondsExact ==
    \A p \in Procs :
        Has(p, "GetSessionToken")
        => /\ durationSeconds[p] \div SecondsPerHour = duration.hours
           /\ durationSeconds[p] % SecondsPerHour = duration.seconds
           /\ duration.nanos = 0

====
